---- MODULE Spec2Model ----
(***************************************************************************)
(* A model of the DNS server of this repository: the 12-byte header codec  *)
(* (dns_header.rs), the question and record codecs (dns_question.rs,       *)
(* dns_answer.rs), the type and class tables (dns_type.rs, dns_class.rs)   *)
(* and the receive loop of main.rs.                                        *)
(*                                                                         *)
(* Three specifications share the variables:                               *)
(*   SpecHeader  drives the header codec over bounded inputs,              *)
(*   SpecCodec   drives the question / record codecs over bounded inputs,  *)
(*   Spec        is the server: one action per received datagram.          *)
(***************************************************************************)
EXTENDS Integers, Sequences, FiniteSets, TLC

VARIABLES
    h_pc,        \* header harness: position
    h_orig,      \* header harness: the input (12 bytes, or a DnsHeader value)
    h_bytes,     \* header harness: the current byte slice
    h_val,       \* header harness: the current DnsHeader value
    c_pc,        \* codec harness: position
    c_orig,      \* codec harness: the input (bytes and start offset, or a value)
    c_bytes,     \* codec harness: the current byte vector
    c_res,       \* codec harness: the result of the last try_from
    pc,          \* server: "running", "panicked" or "exited"
    buf,         \* server: main's receive buffer, [0; 512]
    datagram,    \* server: the datagram received last (bytes and the request it encodes)
    dns_header,  \* server: main's dns_header after the rewrite for the response
    questions,   \* server: main's questions vector
    answers,     \* server: main's answers vector
    response,    \* server: the bytes handed to send_to for the last datagram
    nrecv,       \* server: number of datagrams received so far
    failure,     \* server: the error the failing expect reported, if one did
    reader_pos   \* server: the position of reader when the iteration ended

hvars == <<h_pc, h_orig, h_bytes, h_val>>
cvars == <<c_pc, c_orig, c_bytes, c_res>>
svars == <<pc, buf, datagram, dns_header, questions, answers, response, nrecv,
           failure, reader_pos>>
vars == <<h_pc, h_orig, h_bytes, h_val, c_pc, c_orig, c_bytes, c_res,
          pc, buf, datagram, dns_header, questions, answers, response, nrecv,
          failure, reader_pos>>

None == "none"

(***************************************************************************)
(* Integer helpers: u8 / u16 arithmetic as the Rust code performs it.      *)
(***************************************************************************)
Byte == 0..255

RECURSIVE BitAnd(_, _)
BitAnd(a, b) ==
    IF a = 0 \/ b = 0 THEN 0
    ELSE (a % 2) * (b % 2) + 2 * BitAnd(a \div 2, b \div 2)

Shr(value, n) == value \div (2 ^ n)

Shl8(value, n) == (value * (2 ^ n)) % 256

Add8(a, b) == (a + b) % 256

U16FromBeBytes(b) == b[1] * 256 + b[2]

U16ToBeBytes(v) == <<(v \div 256) % 256, v % 256>>

\* a u32 is held as <<high 16 bits, low 16 bits>>: TLC's integers are 32-bit signed
U32(n) == <<(n \div 65536) % 65536, n % 65536>>

U32FromBeBytes(b) == <<b[1] * 256 + b[2], b[3] * 256 + b[4]>>

U32ToBeBytes(v) ==
    <<(v[1] \div 256) % 256, v[1] % 256, (v[2] \div 256) % 256, v[2] % 256>>

Slice(s, from, to) == SubSeq(s, from + 1, to)

(***************************************************************************)
(* dns_header.rs                                                           *)
(***************************************************************************)
OpCodes == {"Query", "Iquery", "Status", "Reserved"}

RCodes == {"NoError", "FormatError", "ServerFailure", "NameError",
           "NotImplemented", "Refused", "Reserved"}

OpCodeFromVal(operation_code_val) ==
    CASE operation_code_val = 0 -> "Query"
      [] operation_code_val = 1 -> "Iquery"
      [] operation_code_val = 2 -> "Status"
      [] operation_code_val \in 3..15 -> "Reserved"

OpCodeIntoVal_Mut(operation_code) ==
    CASE operation_code = "Query" -> 0
      [] operation_code = "Iquery" -> 1
      [] operation_code = "Status" -> 2
      [] operation_code = "Reserved" -> 15

OpCodeIntoVal(operation_code) ==
    CASE operation_code = "Query" -> 0
      [] operation_code = "Iquery" -> 1
      [] operation_code = "Status" -> 2
      [] operation_code = "Reserved" -> 3

RCodeFromVal(response_code_val) ==
    CASE response_code_val = 0 -> "NoError"
      [] response_code_val = 1 -> "FormatError"
      [] response_code_val = 2 -> "ServerFailure"
      [] response_code_val = 3 -> "NameError"
      [] response_code_val = 4 -> "NotImplemented"
      [] response_code_val = 5 -> "Refused"
      [] response_code_val \in 6..15 -> "Reserved"

RCodeIntoVal(response_code) ==
    CASE response_code = "NoError" -> 0
      [] response_code = "FormatError" -> 1
      [] response_code = "ServerFailure" -> 2
      [] response_code = "NameError" -> 3
      [] response_code = "NotImplemented" -> 4
      [] response_code = "Refused" -> 5
      [] response_code = "Reserved" -> 6

ThirdByteFrom_Mut(value) ==
    [ query_response_ind   |-> Shr(value, 7) = 1,
      operation_code       |-> OpCodeFromVal(Shr(BitAnd(value, 56), 3)),
      authoritative_answer |-> Shr(BitAnd(value, 4), 2) = 1,
      truncation           |-> Shr(BitAnd(value, 2), 1) = 1,
      recursion_desired    |-> BitAnd(value, 1) = 1 ]

ThirdByteFrom(value) ==
    [ query_response_ind   |-> Shr(value, 7) = 1,
      operation_code       |-> OpCodeFromVal(Shr(BitAnd(value, 120), 3)),
      authoritative_answer |-> Shr(BitAnd(value, 4), 2) = 1,
      truncation           |-> Shr(BitAnd(value, 2), 1) = 1,
      recursion_desired    |-> BitAnd(value, 1) = 1 ]

ThirdByteInto(third_byte) ==
    LET v0 == 0
        v1 == IF third_byte.query_response_ind THEN Add8(v0, Shl8(1, 7)) ELSE v0
        v2 == Add8(v1, Shl8(OpCodeIntoVal(third_byte.operation_code), 3))
        v3 == IF third_byte.authoritative_answer THEN Add8(v2, Shl8(1, 2)) ELSE v2
        v4 == IF third_byte.truncation THEN Add8(v3, Shl8(1, 1)) ELSE v3
        v5 == IF third_byte.recursion_desired THEN Add8(v4, 1) ELSE v4
    IN  v5

FourthByteFrom(value) ==
    [ recursion_available |-> Shr(value, 7) = 1,
      reserved            |-> Shr(BitAnd(value, 112), 4),
      response_code       |-> RCodeFromVal(BitAnd(value, 15)) ]

FourthByteInto_Mut(fourth_byte) ==
    LET v0 == 0
        v1 == IF fourth_byte.recursion_available THEN Add8(v0, Shl8(1, 7)) ELSE v0
        v2 == Add8(v1, Shl8(fourth_byte.reserved, 3))
        v3 == Add8(v2, RCodeIntoVal(fourth_byte.response_code))
    IN  v3

FourthByteInto(fourth_byte) ==
    LET v0 == 0
        v1 == IF fourth_byte.recursion_available THEN Add8(v0, Shl8(1, 7)) ELSE v0
        v2 == Add8(v1, Shl8(fourth_byte.reserved, 4))
        v3 == Add8(v2, RCodeIntoVal(fourth_byte.response_code))
    IN  v3

\* TryFrom<&[u8]> for DnsHeader: Err unless the slice is 12 bytes long.
DnsHeaderTryFrom(bytes_slice) ==
    IF Len(bytes_slice) # 12
    THEN [ok |-> FALSE, err |-> "HeaderLength", val |-> None]
    ELSE [ok |-> TRUE, err |-> None, val |->
           [ packet_id               |-> U16FromBeBytes(Slice(bytes_slice, 0, 2)),
             third_byte              |-> ThirdByteFrom(bytes_slice[3]),
             fourth_byte             |-> FourthByteFrom(bytes_slice[4]),
             question_count          |-> U16FromBeBytes(Slice(bytes_slice, 4, 6)),
             answer_record_count     |-> U16FromBeBytes(Slice(bytes_slice, 6, 8)),
             authority_record_count  |-> U16FromBeBytes(Slice(bytes_slice, 8, 10)),
             additional_record_count |-> U16FromBeBytes(Slice(bytes_slice, 10, 12)) ]]

\* From<DnsHeader> for [u8; 12]
DnsHeaderInto(h) ==
    U16ToBeBytes(h.packet_id)
    \o <<ThirdByteInto(h.third_byte), FourthByteInto(h.fourth_byte)>>
    \o U16ToBeBytes(h.question_count)
    \o U16ToBeBytes(h.answer_record_count)
    \o U16ToBeBytes(h.authority_record_count)
    \o U16ToBeBytes(h.additional_record_count)

(***************************************************************************)
(* Header harness: inputs                                                  *)
(***************************************************************************)
\* the vector of test_dns_header_from_bytes
TestHeaderBytes == <<11, 13, 12, 162, 3, 170, 0, 27, 13, 7, 255, 255>>

HeaderIdBytes == {<<11, 13>>, <<0, 0>>, <<255, 255>>}

\* every third byte with the test's fourth byte, every fourth byte with the test's third
HeaderFlagBytes ==
    {<<b, 162>> : b \in Byte} \cup {<<12, b>> : b \in Byte} \cup {<<255, 255>>, <<0, 0>>}

HeaderCountBytes ==
    { <<3, 170, 0, 27, 13, 7, 255, 255>>,
      <<0, 1, 0, 0, 0, 0, 0, 0>>,
      <<1, 0, 0, 2, 0, 3, 0, 4>> }

HeaderInputs ==
    { i \o f \o c : i \in HeaderIdBytes, f \in HeaderFlagBytes, c \in HeaderCountBytes }
    \cup { Slice(TestHeaderBytes, 0, 11), TestHeaderBytes \o <<0>>, <<>> }

\* <<packet_id, question, answer, authority, additional counts>>
HeaderCounts ==
    { <<2829, 938, 27, 3335, 65535>>, <<0, 1, 0, 0, 0>>, <<65535, 256, 2, 3, 4>> }

\* every DnsHeader value with a 3-bit reserved field
HeaderValues ==
    { [ packet_id               |-> c[1],
        third_byte              |-> t,
        fourth_byte             |-> f,
        question_count          |-> c[2],
        answer_record_count     |-> c[3],
        authority_record_count  |-> c[4],
        additional_record_count |-> c[5] ] :
      t \in [ query_response_ind : BOOLEAN, operation_code : OpCodes,
              authoritative_answer : BOOLEAN, truncation : BOOLEAN,
              recursion_desired : BOOLEAN ],
      f \in [ recursion_available : BOOLEAN, reserved : 0..7, response_code : RCodes ],
      c \in HeaderCounts }

HeaderIdle ==
    /\ h_pc = "idle" /\ h_orig = None /\ h_bytes = <<>> /\ h_val = None

CodecIdle ==
    /\ c_pc = "idle" /\ c_orig = None /\ c_bytes = <<>> /\ c_res = None

ServerIdle ==
    /\ pc = "idle" /\ buf = <<>> /\ datagram = None /\ dns_header = None
    /\ questions = <<>> /\ answers = <<>> /\ response = <<>> /\ nrecv = 0
    /\ failure = None /\ reader_pos = 0

InitHeader ==
    /\ \/ /\ h_pc = "bytes"
          /\ h_orig \in HeaderInputs
          /\ h_bytes = h_orig
          /\ h_val = None
       \/ /\ h_pc = "value"
          /\ h_orig \in HeaderValues
          /\ h_bytes = <<>>
          /\ h_val = h_orig
    /\ CodecIdle
    /\ ServerIdle

\* DnsHeader::try_from(&bytes[..]) on the current bytes
HeaderTryFrom ==
    /\ h_pc \in {"bytes", "encoded"}
    /\ LET r == DnsHeaderTryFrom(h_bytes)
       IN  /\ h_val' = r.val
           /\ h_pc' = IF ~r.ok THEN "failed"
                      ELSE IF h_pc = "bytes" THEN "decoded" ELSE "redecoded"
    /\ UNCHANGED <<h_orig, h_bytes>>
    /\ UNCHANGED <<cvars, svars>>

\* dns_header.into() on the current value
HeaderInto ==
    /\ h_pc \in {"value", "decoded"}
    /\ h_bytes' = DnsHeaderInto(h_val)
    /\ h_pc' = IF h_pc = "value" THEN "encoded" ELSE "reencoded"
    /\ UNCHANGED <<h_orig, h_val>>
    /\ UNCHANGED <<cvars, svars>>

NextHeader == HeaderTryFrom \/ HeaderInto

SpecHeader == InitHeader /\ [][NextHeader]_vars

(***************************************************************************)
(* Header claims                                                           *)
(***************************************************************************)
\* bit k of byte b, and the field of width w starting at bit k, by arithmetic
BitOf(b, k) == (b \div (2 ^ k)) % 2

FieldOf(b, k, w) == (b \div (2 ^ k)) % (2 ^ w)

\* C1: decoding the 12 bytes produced by encoding a DnsHeader value whose
\* reserved field is 3 bits wide gives back exactly that value.
C1_HeaderValueRoundTrip ==
    h_pc = "redecoded" => h_val = h_orig

C1_Witness ==
    /\ h_pc = "redecoded"
    /\ h_orig.third_byte.operation_code = "Reserved"
    /\ h_orig.fourth_byte.response_code = "Reserved"
    /\ h_orig.fourth_byte.reserved = 7
    /\ h_orig.fourth_byte.recursion_available

\* the 12 input bytes with an opcode field of 3..15 replaced by 3 and a
\* response-code field of 6..15 replaced by 6
FoldedBytes(b) ==
    LET op == FieldOf(b[3], 3, 4)
        rc == FieldOf(b[4], 0, 4)
        b3 == IF op >= 3 THEN b[3] - op * 8 + 3 * 8 ELSE b[3]
        b4 == IF rc >= 6 THEN b[4] - rc + 6 ELSE b[4]
    IN  [b EXCEPT ![3] = b3, ![4] = b4]

\* C2: re-encoding a decoded 12-byte header gives the same 12 bytes, except
\* that an opcode field of 3..15 comes back as 3 and a response-code field of
\* 6..15 comes back as 6.
C2_HeaderBytesRoundTrip ==
    h_pc = "reencoded" => h_bytes = FoldedBytes(h_orig)

C2_Witness ==
    /\ h_pc = "reencoded"
    /\ FieldOf(h_orig[3], 3, 4) = 9
    /\ h_bytes # h_orig
    /\ h_bytes[3] = h_orig[3] - 48

\* C3: decoding 12 bytes reads id from bytes 0-1, the flags and codes from
\* the stated bits of bytes 2 and 3, and the four counts from bytes 4-11, all
\* big-endian; the test vector decodes to the values of the unit test.
C3_HeaderFieldLayout ==
    h_pc = "decoded" =>
        /\ h_val.packet_id = h_orig[1] * 256 + h_orig[2]
        /\ h_val.third_byte.query_response_ind = (BitOf(h_orig[3], 7) = 1)
        /\ h_val.third_byte.operation_code =
               (LET op == FieldOf(h_orig[3], 3, 4)
                IN  IF op = 0 THEN "Query" ELSE IF op = 1 THEN "Iquery"
                    ELSE IF op = 2 THEN "Status" ELSE "Reserved")
        /\ h_val.third_byte.authoritative_answer = (BitOf(h_orig[3], 2) = 1)
        /\ h_val.third_byte.truncation = (BitOf(h_orig[3], 1) = 1)
        /\ h_val.third_byte.recursion_desired = (BitOf(h_orig[3], 0) = 1)
        /\ h_val.fourth_byte.recursion_available = (BitOf(h_orig[4], 7) = 1)
        /\ h_val.fourth_byte.reserved = FieldOf(h_orig[4], 4, 3)
        /\ h_val.fourth_byte.response_code =
               (LET rc == FieldOf(h_orig[4], 0, 4)
                IN  IF rc = 0 THEN "NoError" ELSE IF rc = 1 THEN "FormatError"
                    ELSE IF rc = 2 THEN "ServerFailure" ELSE IF rc = 3 THEN "NameError"
                    ELSE IF rc = 4 THEN "NotImplemented" ELSE IF rc = 5 THEN "Refused"
                    ELSE "Reserved")
        /\ h_val.question_count = h_orig[5] * 256 + h_orig[6]
        /\ h_val.answer_record_count = h_orig[7] * 256 + h_orig[8]
        /\ h_val.authority_record_count = h_orig[9] * 256 + h_orig[10]
        /\ h_val.additional_record_count = h_orig[11] * 256 + h_orig[12]
        /\ h_orig = TestHeaderBytes =>
              h_val = [ packet_id |-> 2829,
                        third_byte |-> [ query_response_ind |-> FALSE,
                                         operation_code |-> "Iquery",
                                         authoritative_answer |-> TRUE,
                                         truncation |-> FALSE,
                                         recursion_desired |-> FALSE ],
                        fourth_byte |-> [ recursion_available |-> TRUE,
                                          reserved |-> 2,
                                          response_code |-> "ServerFailure" ],
                        question_count |-> 938,
                        answer_record_count |-> 27,
                        authority_record_count |-> 3335,
                        additional_record_count |-> 65535 ]

C3_Witness ==
    /\ h_pc = "decoded"
    /\ h_orig = TestHeaderBytes
    /\ h_val.third_byte.operation_code = "Iquery"
    /\ h_val.fourth_byte.reserved = 2

(***************************************************************************)
(* dns_type.rs, dns_class.rs                                               *)
(***************************************************************************)
QTypeTryFrom_Mut(value) ==
    CASE value = 1 -> [ok |-> TRUE, err |-> None, val |-> "A"]
      [] value = 2 -> [ok |-> TRUE, err |-> None, val |-> "Ns"]
      [] value = 3 -> [ok |-> TRUE, err |-> None, val |-> "Md"]
      [] value = 4 -> [ok |-> TRUE, err |-> None, val |-> "Mf"]
      [] value = 5 -> [ok |-> TRUE, err |-> None, val |-> "Cname"]
      [] value = 6 -> [ok |-> TRUE, err |-> None, val |-> "Soa"]
      [] value = 7 -> [ok |-> TRUE, err |-> None, val |-> "Mb"]
      [] value = 8 -> [ok |-> TRUE, err |-> None, val |-> "Mg"]
      [] value = 9 -> [ok |-> TRUE, err |-> None, val |-> "Mr"]
      [] value = 10 -> [ok |-> TRUE, err |-> None, val |-> "Null"]
      [] value = 11 -> [ok |-> TRUE, err |-> None, val |-> "Wks"]
      [] value = 12 -> [ok |-> TRUE, err |-> None, val |-> "Ptr"]
      [] value = 13 -> [ok |-> TRUE, err |-> None, val |-> "Hinfo"]
      [] value = 14 -> [ok |-> TRUE, err |-> None, val |-> "Minfo"]
      [] value = 15 -> [ok |-> TRUE, err |-> None, val |-> "Mx"]
      [] value = 16 -> [ok |-> TRUE, err |-> None, val |-> "Txt"]
      [] value = 252 -> [ok |-> TRUE, err |-> None, val |-> "Axfr"]
      [] value = 253 -> [ok |-> TRUE, err |-> None, val |-> "Mailb"]
      [] value = 254 -> [ok |-> TRUE, err |-> None, val |-> "Maila"]
      [] value = 255 -> [ok |-> TRUE, err |-> None, val |-> "StarSign"]
      [] OTHER -> [ok |-> TRUE, err |-> None, val |-> "A"]

QTypeTryFrom(value) ==
    CASE value = 1 -> [ok |-> TRUE, err |-> None, val |-> "A"]
      [] value = 2 -> [ok |-> TRUE, err |-> None, val |-> "Ns"]
      [] value = 3 -> [ok |-> TRUE, err |-> None, val |-> "Md"]
      [] value = 4 -> [ok |-> TRUE, err |-> None, val |-> "Mf"]
      [] value = 5 -> [ok |-> TRUE, err |-> None, val |-> "Cname"]
      [] value = 6 -> [ok |-> TRUE, err |-> None, val |-> "Soa"]
      [] value = 7 -> [ok |-> TRUE, err |-> None, val |-> "Mb"]
      [] value = 8 -> [ok |-> TRUE, err |-> None, val |-> "Mg"]
      [] value = 9 -> [ok |-> TRUE, err |-> None, val |-> "Mr"]
      [] value = 10 -> [ok |-> TRUE, err |-> None, val |-> "Null"]
      [] value = 11 -> [ok |-> TRUE, err |-> None, val |-> "Wks"]
      [] value = 12 -> [ok |-> TRUE, err |-> None, val |-> "Ptr"]
      [] value = 13 -> [ok |-> TRUE, err |-> None, val |-> "Hinfo"]
      [] value = 14 -> [ok |-> TRUE, err |-> None, val |-> "Minfo"]
      [] value = 15 -> [ok |-> TRUE, err |-> None, val |-> "Mx"]
      [] value = 16 -> [ok |-> TRUE, err |-> None, val |-> "Txt"]
      [] value = 252 -> [ok |-> TRUE, err |-> None, val |-> "Axfr"]
      [] value = 253 -> [ok |-> TRUE, err |-> None, val |-> "Mailb"]
      [] value = 254 -> [ok |-> TRUE, err |-> None, val |-> "Maila"]
      [] value = 255 -> [ok |-> TRUE, err |-> None, val |-> "StarSign"]
      [] OTHER -> [ok |-> FALSE, err |-> "InvalidQType", val |-> None]

QTypeInto(val) ==
    CASE val = "A" -> 1
      [] val = "Ns" -> 2
      [] val = "Md" -> 3
      [] val = "Mf" -> 4
      [] val = "Cname" -> 5
      [] val = "Soa" -> 6
      [] val = "Mb" -> 7
      [] val = "Mg" -> 8
      [] val = "Mr" -> 9
      [] val = "Null" -> 10
      [] val = "Wks" -> 11
      [] val = "Ptr" -> 12
      [] val = "Hinfo" -> 13
      [] val = "Minfo" -> 14
      [] val = "Mx" -> 15
      [] val = "Txt" -> 16
      [] val = "Axfr" -> 252
      [] val = "Mailb" -> 253
      [] val = "Maila" -> 254
      [] val = "StarSign" -> 255

QClassTryFrom(value) ==
    CASE value = 1 -> [ok |-> TRUE, err |-> None, val |-> "In"]
      [] value = 2 -> [ok |-> TRUE, err |-> None, val |-> "Cs"]
      [] value = 3 -> [ok |-> TRUE, err |-> None, val |-> "Ch"]
      [] value = 4 -> [ok |-> TRUE, err |-> None, val |-> "Hs"]
      [] value = 255 -> [ok |-> TRUE, err |-> None, val |-> "StarSign"]
      [] OTHER -> [ok |-> FALSE, err |-> "InvalidQClass", val |-> None]

QClassInto(val) ==
    CASE val = "In" -> 1
      [] val = "Cs" -> 2
      [] val = "Ch" -> 3
      [] val = "Hs" -> 4
      [] val = "StarSign" -> 255

(***************************************************************************)
(* std: String::from_utf8 and Cursor::read_exact, as the codecs use them   *)
(***************************************************************************)
IsCont(b) == b \in 128..191

\* number of bytes of the well-formed UTF-8 sequence starting at s[i], or 0
Utf8Width(s, i) ==
    LET n == Len(s)
        b == s[i]
        c1 == IF i + 1 <= n THEN s[i + 1] ELSE 0
        c2 == IF i + 2 <= n THEN s[i + 2] ELSE 0
        c3 == IF i + 3 <= n THEN s[i + 3] ELSE 0
    IN  IF b <= 127 THEN 1
        ELSE IF b \in 194..223 THEN (IF IsCont(c1) THEN 2 ELSE 0)
        ELSE IF b = 224 THEN (IF c1 \in 160..191 /\ IsCont(c2) THEN 3 ELSE 0)
        ELSE IF b \in (225..236) \cup (238..239)
             THEN (IF IsCont(c1) /\ IsCont(c2) THEN 3 ELSE 0)
        ELSE IF b = 237 THEN (IF c1 \in 128..159 /\ IsCont(c2) THEN 3 ELSE 0)
        ELSE IF b = 240
             THEN (IF c1 \in 144..191 /\ IsCont(c2) /\ IsCont(c3) THEN 4 ELSE 0)
        ELSE IF b \in 241..243
             THEN (IF IsCont(c1) /\ IsCont(c2) /\ IsCont(c3) THEN 4 ELSE 0)
        ELSE IF b = 244
             THEN (IF c1 \in 128..143 /\ IsCont(c2) /\ IsCont(c3) THEN 4 ELSE 0)
        ELSE 0

\* String::from_utf8(content_buf).is_ok(): the bytes split into well-formed
\* sequences, i.e. the first byte and the byte after every sequence start a
\* sequence, and every byte that is not a continuation byte starts a
\* well-formed one
IsUtf8(s) ==
    /\ s # <<>> => ~IsCont(s[1])
    /\ \A i \in 1..Len(s) :
          ~IsCont(s[i]) =>
              LET w == Utf8Width(s, i)
              IN  /\ w > 0
                  /\ i + w <= Len(s) => ~IsCont(s[i + w])

\* Cursor::read_exact: n bytes from position pos (0-based) of the slice, or Err
ReadExact(bytes, pos, n) ==
    IF pos + n <= Len(bytes)
    THEN [ok |-> TRUE, data |-> SubSeq(bytes, pos + 1, pos + n), pos |-> pos + n]
    ELSE [ok |-> FALSE, data |-> <<>>, pos |-> Len(bytes)]

(***************************************************************************)
(* dns_question.rs, dns_answer.rs                                          *)
(***************************************************************************)
\* the name loop of DnsQuestion::try_from and DnsAnswer::try_from
RECURSIVE ReadName(_, _, _)
ReadName(bytes, pos, q_name) ==
    LET r1 == ReadExact(bytes, pos, 1)
    IN  IF ~r1.ok
        THEN [ok |-> FALSE, err |-> "UnexpectedEof", labels |-> <<>>, pos |-> r1.pos]
        ELSE LET length == r1.data[1]
             IN  IF length = 0
                 THEN [ok |-> TRUE, err |-> None, labels |-> q_name, pos |-> r1.pos]
                 ELSE LET r2 == ReadExact(bytes, r1.pos, length)
                      IN  IF ~r2.ok
                          THEN [ok |-> FALSE, err |-> "UnexpectedEof",
                                labels |-> <<>>, pos |-> r2.pos]
                          ELSE IF ~IsUtf8(r2.data)
                          THEN [ok |-> FALSE, err |-> "FromUtf8Error",
                                labels |-> <<>>, pos |-> r2.pos]
                          ELSE ReadName(bytes, r2.pos,
                                   Append(q_name, [length |-> length, label |-> r2.data]))

QFail(err) == [ok |-> FALSE, err |-> err, val |-> None, name_end |-> -1, pos |-> -1]

\* TryFrom<&mut dyn BufRead> for DnsQuestion, the reader standing at pos
DnsQuestionTryFrom(bytes, pos) ==
    LET n == ReadName(bytes, pos, <<>>)
        t == ReadExact(bytes, n.pos, 2)
        q_type == QTypeTryFrom(U16FromBeBytes(t.data))
        c == ReadExact(bytes, t.pos, 2)
        q_class == QClassTryFrom(U16FromBeBytes(c.data))
    IN  IF ~n.ok THEN QFail(n.err)
        ELSE IF ~t.ok THEN QFail("UnexpectedEof")
        ELSE IF ~q_type.ok THEN QFail(q_type.err)
        ELSE IF ~c.ok THEN QFail("UnexpectedEof")
        ELSE IF ~q_class.ok THEN QFail(q_class.err)
        ELSE [ok |-> TRUE, err |-> None,
              val |-> [q_name |-> n.labels, q_type |-> q_type.val, q_class |-> q_class.val],
              name_end |-> n.pos, pos |-> c.pos]

RECURSIVE LabelsInto_Mut(_)
LabelsInto_Mut(name) ==
    IF name = <<>> THEN <<>>
    ELSE <<Head(name).length>> \o Head(name).label \o LabelsInto_Mut(Tail(name))

\* the label loop and the terminating zero of both encoders
RECURSIVE LabelsInto(_)
LabelsInto(name) ==
    IF name = <<>> THEN <<0>>
    ELSE <<Head(name).length>> \o Head(name).label \o LabelsInto(Tail(name))

\* From<DnsQuestion> for Vec<u8>
DnsQuestionInto(dns_question) ==
    LabelsInto(dns_question.q_name)
    \o U16ToBeBytes(QTypeInto(dns_question.q_type))
    \o U16ToBeBytes(QClassInto(dns_question.q_class))

\* TryFrom<&mut dyn Read> for DnsAnswer, the reader standing at pos
DnsAnswerTryFrom(bytes, pos) ==
    LET n == ReadName(bytes, pos, <<>>)
        t == ReadExact(bytes, n.pos, 2)
        r_type == QTypeTryFrom(U16FromBeBytes(t.data))
        c == ReadExact(bytes, t.pos, 2)
        r_class == QClassTryFrom(U16FromBeBytes(c.data))
        l == ReadExact(bytes, c.pos, 4)
        d == ReadExact(bytes, l.pos, 2)
        rd_length == U16FromBeBytes(d.data)
        r == ReadExact(bytes, d.pos, rd_length)
    IN  IF ~n.ok THEN QFail(n.err)
        ELSE IF ~t.ok THEN QFail("UnexpectedEof")
        ELSE IF ~r_type.ok THEN QFail(r_type.err)
        ELSE IF ~c.ok THEN QFail("UnexpectedEof")
        ELSE IF ~r_class.ok THEN QFail(r_class.err)
        ELSE IF ~l.ok THEN QFail("UnexpectedEof")
        ELSE IF ~d.ok THEN QFail("UnexpectedEof")
        ELSE IF ~r.ok THEN QFail("UnexpectedEof")
        ELSE [ok |-> TRUE, err |-> None,
              val |-> [r_name |-> n.labels, r_type |-> r_type.val, r_class |-> r_class.val,
                       ttl |-> U32FromBeBytes(l.data), rd_length |-> rd_length,
                       r_data |-> r.data],
              name_end |-> n.pos, pos |-> r.pos]

\* From<DnsQuestion> for DnsAnswer
DnsAnswerFromQuestion(question) ==
    [r_name |-> question.q_name, r_type |-> question.q_type, r_class |-> question.q_class,
     ttl |-> U32(0), rd_length |-> 0, r_data |-> <<>>]

DnsAnswerInto_Mut(dns_answer) ==
    LabelsInto(dns_answer.r_name)
    \o U16ToBeBytes(QTypeInto(dns_answer.r_type))
    \o U16ToBeBytes(QClassInto(dns_answer.r_class))
    \o U32ToBeBytes(dns_answer.ttl)
    \o U16ToBeBytes(0)
    \o dns_answer.r_data

\* From<DnsAnswer> for Vec<u8>
DnsAnswerInto(dns_answer) ==
    LabelsInto(dns_answer.r_name)
    \o U16ToBeBytes(QTypeInto(dns_answer.r_type))
    \o U16ToBeBytes(QClassInto(dns_answer.r_class))
    \o U32ToBeBytes(dns_answer.ttl)
    \o U16ToBeBytes(dns_answer.rd_length)
    \o dns_answer.r_data

(***************************************************************************)
(* Codec harness: inputs                                                   *)
(***************************************************************************)
MaxLabels == 2

MaxRData == 4

MaxCodeVal == 300

\* DnsLabel { length, label } of a string given by its UTF-8 bytes
Label(text) == [length |-> Len(text), label |-> text]

\* "query", "example", "com", "e-acute" (two bytes) and a label of 63 bytes
LabelPool ==
    { Label(<<113, 117, 101, 114, 121>>),
      Label(<<101, 120, 97, 109, 112, 108, 101>>),
      Label(<<99, 111, 109>>),
      Label(<<195, 169>>),
      Label([i \in 1..63 |-> 97]) }

\* query.example.com, the name of test_dns_answer_from_bytes
TestName ==
    << Label(<<113, 117, 101, 114, 121>>),
       Label(<<101, 120, 97, 109, 112, 108, 101>>),
       Label(<<99, 111, 109>>) >>

Names ==
    UNION { [1..n -> LabelPool] : n \in 0..MaxLabels } \cup {TestName}

CodeVals == (0..MaxCodeVal) \cup {511, 513, 1024, 32769, 65281, 65535}

\* the value of the fields an input does not use
NoQuestion == [q_name |-> <<>>, q_type |-> "A", q_class |-> "In"]

\* kind: what the input is; val: the question to encode ("qvalue");
\* bytes, pos: the buffer and the reader's position in it;
\* plain, name: whether the bytes at pos are the plain encoding of a name, and that name
CodecInput(kind, val, bytes, pos, plain, name) ==
    [kind |-> kind, val |-> val, bytes |-> bytes, pos |-> pos,
     plain |-> plain, name |-> name]

QuestionValues ==
    { CodecInput("qvalue", [q_name |-> n, q_type |-> t, q_class |-> c], <<>>, 0, TRUE, n) :
      n \in Names, t \in {"A", "Mx", "StarSign"}, c \in {"In", "Hs"} }

\* an encoded name followed by a type and a class, one of them swept
QuestionCodeInputs ==
    { CodecInput("qbytes", NoQuestion,
                 LabelsInto(n) \o U16ToBeBytes(tc[1]) \o U16ToBeBytes(tc[2]), 0, TRUE, n) :
      n \in {<<>>, TestName},
      tc \in (CodeVals \X {1, 255, 0}) \cup ({1, 255, 17} \X CodeVals) }

\* a question, then a second question whose name is a compression pointer
\* to a label of the first (RFC 1035 4.1.4), zero-padded or not
PointerInputs ==
    { CodecInput("qbytes", NoQuestion,
                 LabelsInto(n) \o <<0, 1, 0, 1>> \o <<192, off>> \o <<0, 1, 0, 1>>
                     \o [i \in 1..pad |-> 0],
                 Len(LabelsInto(n)) + 4, FALSE, <<>>) :
      n \in Names \ {<<>>}, off \in {0}, pad \in {0, 200} }
    \cup
    { CodecInput("qbytes", NoQuestion,
                 LabelsInto(TestName) \o <<0, 1, 0, 1>> \o <<192, off>> \o <<0, 1, 0, 1>>,
                 Len(LabelsInto(TestName)) + 4, FALSE, <<>>) : off \in {6, 14} }

\* a first length byte with top bits 01 or 10, followed by that many bytes or fewer
ReservedLengthInputs ==
    { CodecInput("qbytes", NoQuestion,
                 <<len>> \o [i \in 1..have |-> 97] \o <<0, 0, 1, 0, 1>>, 0, FALSE, <<>>) :
      len \in {64, 65, 100, 127, 128, 191}, have \in {64, 191} }

\* truncated and ill-formed questions
RawQuestionInputs ==
    { CodecInput("qbytes", NoQuestion, b, 0, FALSE, <<>>) :
      b \in { <<>>, <<3, 99, 111>>, <<3, 99, 111, 109>>, <<3, 99, 111, 109, 0, 0>>,
              <<3, 99, 111, 109, 0, 0, 1, 0>>, <<1, 255, 0, 0, 1, 0, 1>>,
              <<2, 195, 40, 0, 0, 1, 0, 1>>, <<3, 237, 160, 128, 0, 0, 1, 0, 1>> } }

\* a name that is a compression pointer to itself, or the first of two
\* pointers to each other, alone, followed by a type and a class, or followed
\* by as many bytes as its first byte read as a label length asks for
PointerLoopInputs ==
    { CodecInput(kind, NoQuestion, ptr \o rest, 0, FALSE, <<>>) :
      kind \in {"qbytes", "abytes"},
      ptr \in { <<192, 0>>, <<192, 2, 192, 0>> },
      rest \in { <<>>, <<0, 1, 0, 1>> } }
    \cup
    { CodecInput(kind, NoQuestion,
                 ptr \o [i \in 1..(193 - Len(ptr)) |-> 97]
                     \o <<0, 0, 1, 0, 1, 0, 0, 0, 60, 0, 0>>, 0, FALSE, <<>>) :
      kind \in {"qbytes", "abytes"},
      ptr \in { <<192, 0>>, <<192, 2, 192, 0>> } }

RData(n) == [i \in 1..n |-> (i * 37 + 7) % 256]

\* name, type, class, ttl, rdLength and rData; rData shorter, equal or longer than rdLength
AnswerInputs ==
    { CodecInput("abytes", NoQuestion,
                 LabelsInto(n) \o U16ToBeBytes(tc[1]) \o U16ToBeBytes(tc[2]) \o ttl
                     \o U16ToBeBytes(rdl) \o RData(have), 0, TRUE, n) :
      n \in {<<>>, TestName, <<Label(<<195, 169>>)>>},
      tc \in {<<7, 4>>, <<1, 1>>, <<255, 255>>, <<0, 1>>, <<1, 5>>, <<263, 1>>},
      ttl \in {<<0, 0, 5, 119>>, <<255, 255, 255, 255>>},
      rdl \in (0..MaxRData) \cup {258},
      have \in (0..MaxRData) \cup {258} }
    \cup
    { CodecInput("abytes", NoQuestion, b, 0, FALSE, <<>>) :
      b \in { <<>>, <<0, 0, 1>>, <<0, 0, 1, 0, 1, 0, 0>>, <<0, 0, 1, 0, 1, 0, 0, 0, 60, 0>>,
              <<64>> \o [i \in 1..64 |-> 97] \o <<0, 0, 1, 0, 1, 0, 0, 0, 60, 0, 1, 9>> } }

\* test_dns_answer_from_bytes
TestAnswerBytes ==
    LabelsInto(TestName) \o <<0, 7, 0, 4, 0, 0, 5, 119, 0, 4, 7, 45, 32, 56>>

CodecInputs ==
    QuestionValues \cup QuestionCodeInputs \cup PointerInputs \cup ReservedLengthInputs
    \cup RawQuestionInputs \cup AnswerInputs \cup PointerLoopInputs
    \cup {CodecInput("abytes", NoQuestion, TestAnswerBytes, 0, TRUE, TestName)}

InitCodec ==
    /\ c_orig \in CodecInputs
    /\ c_pc = c_orig.kind
    /\ c_bytes = c_orig.bytes
    /\ c_res = None
    /\ HeaderIdle
    /\ ServerIdle

\* DnsQuestion::try_from(reader) with the reader at the input's position
QuestionTryFrom ==
    /\ c_pc \in {"qbytes", "qencoded"}
    /\ c_res' = DnsQuestionTryFrom(c_bytes, c_orig.pos)
    /\ c_pc' = IF ~c_res'.ok THEN "qfailed"
               ELSE IF c_pc = "qbytes" THEN "qdecoded" ELSE "qredecoded"
    /\ UNCHANGED <<c_orig, c_bytes>>
    /\ UNCHANGED <<hvars, svars>>

\* dns_question.into()
QuestionInto ==
    /\ c_pc \in {"qvalue", "qdecoded"}
    /\ c_bytes' = DnsQuestionInto(IF c_pc = "qvalue" THEN c_orig.val ELSE c_res.val)
    /\ c_pc' = IF c_pc = "qvalue" THEN "qencoded" ELSE "qreencoded"
    /\ UNCHANGED <<c_orig, c_res>>
    /\ UNCHANGED <<hvars, svars>>

\* DnsAnswer::try_from(reader) with the reader at the input's position
AnswerTryFrom ==
    /\ c_pc = "abytes"
    /\ c_res' = DnsAnswerTryFrom(c_bytes, c_orig.pos)
    /\ c_pc' = IF c_res'.ok THEN "adecoded" ELSE "afailed"
    /\ UNCHANGED <<c_orig, c_bytes>>
    /\ UNCHANGED <<hvars, svars>>

\* dns_answer.into()
AnswerInto ==
    /\ c_pc = "adecoded"
    /\ c_bytes' = DnsAnswerInto(c_res.val)
    /\ c_pc' = "areencoded"
    /\ UNCHANGED <<c_orig, c_res>>
    /\ UNCHANGED <<hvars, svars>>

NextCodec == QuestionTryFrom \/ QuestionInto \/ AnswerTryFrom \/ AnswerInto

SpecCodec == InitCodec /\ [][NextCodec]_vars

(***************************************************************************)
(* Codec claims                                                            *)
(***************************************************************************)
\* number of bytes of the plain encoding of a name: a length byte and the
\* text of each label, and the terminating zero
RECURSIVE WireLen(_)
WireLen(name) ==
    IF name = <<>> THEN 1 ELSE 1 + Len(Head(name).label) + WireLen(Tail(name))

\* every label is 1..63 bytes long and its length field is its byte length
PlainName(name) ==
    \A i \in 1..Len(name) :
        /\ Len(name[i].label) \in 1..63
        /\ name[i].length = Len(name[i].label)

\* C4: a name of labels of 1..63 bytes, encoded as length-prefixed labels and
\* a zero byte, decodes to the same labels, and the reader then stands right
\* after the zero byte.
C4_NameRoundTrip ==
    (c_orig.kind = "qvalue" /\ c_pc \in {"qredecoded", "qfailed"}
        /\ PlainName(c_orig.val.q_name)) =>
        /\ c_res.ok
        /\ c_res.val.q_name = c_orig.val.q_name
        /\ c_res.name_end = WireLen(c_orig.val.q_name)
        /\ c_bytes[c_res.name_end] = 0

C4_Witness ==
    /\ c_orig.kind = "qvalue"
    /\ c_pc = "qredecoded"
    /\ Len(c_orig.val.q_name) = 2
    /\ c_orig.val.q_name[1].length = 63
    /\ c_orig.val.q_name[2].label = <<195, 169>>
    /\ c_res.name_end = 68

\* the first byte at the reader's position has its top two bits set
AtPointer(in) ==
    /\ Len(in.bytes) >= in.pos + 2
    /\ in.bytes[in.pos + 1] \div 64 = 3

PointerTarget(in) == (in.bytes[in.pos + 1] % 64) * 256 + in.bytes[in.pos + 2]

\* C5: decoding a name at a compression pointer gives the labels that
\* decoding at the pointed-to offset gives; with query.example.com at offset
\* 0 and the pointer C0 00, the three labels query, example, com.
C5_PointerDecodesAsTarget ==
    (c_orig.kind = "qbytes" /\ c_pc \in {"qdecoded", "qfailed"} /\ AtPointer(c_orig)
         /\ PointerTarget(c_orig) < c_orig.pos) =>
        /\ c_res.ok
        /\ c_res.val.q_name = ReadName(c_orig.bytes, PointerTarget(c_orig), <<>>).labels
        /\ (SubSeq(c_orig.bytes, 1, 19) = LabelsInto(TestName) /\ PointerTarget(c_orig) = 0)
               => c_res.val.q_name = TestName

\* C6: a length byte of 64..191 makes the decode fail with MalformedName, and
\* every label of a decoded name is 1..63 bytes long.
C6_ReservedLengthRejected ==
    /\ (c_orig.kind = "qbytes" /\ c_pc \in {"qdecoded", "qfailed"}
           /\ Len(c_orig.bytes) > c_orig.pos
           /\ c_orig.bytes[c_orig.pos + 1] \in 64..191) =>
           (~c_res.ok /\ c_res.err = "MalformedName")
    /\ c_pc \in {"qdecoded", "qredecoded"} =>
           \A i \in 1..Len(c_res.val.q_name) : c_res.val.q_name[i].length \in 1..63
    /\ c_pc = "adecoded" =>
           \A i \in 1..Len(c_res.val.r_name) : c_res.val.r_name[i].length \in 1..63

TypeTable ==
    << "A", "Ns", "Md", "Mf", "Cname", "Soa", "Mb", "Mg", "Mr", "Null", "Wks", "Ptr",
       "Hinfo", "Minfo", "Mx", "Txt" >>

TypeTableHigh == << "Axfr", "Mailb", "Maila", "StarSign" >>

ClassTable == << "In", "Cs", "Ch", "Hs" >>

ValidTypeVal(v) == v \in (1..16) \cup (252..255)

ValidClassVal(v) == v \in (1..4) \cup {255}

TypeOfVal(v) == IF v <= 16 THEN TypeTable[v] ELSE TypeTableHigh[v - 251]

ClassOfVal(v) == IF v <= 4 THEN ClassTable[v] ELSE "StarSign"

\* offset of the type field of an input whose name is plainly encoded
TypeOffset(in) == in.pos + WireLen(in.name)

WordAt(bytes, off) == bytes[off + 1] * 256 + bytes[off + 2]

\* C7: the 16-bit type and class of a question or record decode through the
\* tables (1..16, 252..255; 1..4, 255) to their variant and encode back to the
\* same number; any other value is a decode error, never a default.
C7_TypeClassTables ==
    (c_orig.kind \in {"qbytes", "abytes"} /\ c_orig.plain /\ c_pc # c_orig.kind
        /\ Len(c_orig.bytes) >= TypeOffset(c_orig) + 4) =>
        LET off == TypeOffset(c_orig)
            tv == WordAt(c_orig.bytes, off)
            cv == WordAt(c_orig.bytes, off + 2)
            isq == c_orig.kind = "qbytes"
        IN  /\ (~ValidTypeVal(tv) \/ ~ValidClassVal(cv)) =>
                  /\ ~c_res.ok
                  /\ c_res.val = None
                  /\ c_res.err = IF ~ValidTypeVal(tv) THEN "InvalidQType" ELSE "InvalidQClass"
            /\ (isq /\ ValidTypeVal(tv) /\ ValidClassVal(cv)) => c_res.ok
            /\ c_res.ok =>
                  /\ ValidTypeVal(tv) /\ ValidClassVal(cv)
                  /\ isq => /\ c_res.val.q_type = TypeOfVal(tv)
                            /\ c_res.val.q_class = ClassOfVal(cv)
                  /\ ~isq => /\ c_res.val.r_type = TypeOfVal(tv)
                             /\ c_res.val.r_class = ClassOfVal(cv)
            /\ c_pc \in {"qreencoded", "areencoded"} =>
                  /\ WordAt(c_bytes, off - c_orig.pos) = tv
                  /\ WordAt(c_bytes, off - c_orig.pos + 2) = cv

C7_Witness ==
    /\ c_orig.kind = "qbytes" /\ c_orig.plain
    /\ c_pc = "qfailed"
    /\ WordAt(c_orig.bytes, TypeOffset(c_orig)) = 65281
    /\ WordAt(c_orig.bytes, TypeOffset(c_orig) + 2) = 1
    /\ c_res.err = "InvalidQType"

\* C8: a decoded record has exactly rdLength bytes of rData, encoding it
\* gives back the bytes the decode consumed, and the decode fails with an
\* end-of-input error when fewer than rdLength bytes follow the rdLength field.
C8_RecordRoundTrip ==
    /\ c_pc \in {"adecoded", "areencoded"} =>
           Len(c_res.val.r_data) = c_res.val.rd_length
    /\ c_pc = "areencoded" =>
           c_bytes = SubSeq(c_orig.bytes, c_orig.pos + 1, c_res.pos)
    /\ (c_orig.kind = "abytes" /\ c_orig.plain /\ c_pc # "abytes"
           /\ Len(c_orig.bytes) >= TypeOffset(c_orig) + 10
           /\ ValidTypeVal(WordAt(c_orig.bytes, TypeOffset(c_orig)))
           /\ ValidClassVal(WordAt(c_orig.bytes, TypeOffset(c_orig) + 2))) =>
           LET off == TypeOffset(c_orig)
               rdl == WordAt(c_orig.bytes, off + 8)
               remain == Len(c_orig.bytes) - (off + 10)
           IN  /\ remain < rdl => (c_pc = "afailed" /\ c_res.err = "UnexpectedEof")
               /\ remain >= rdl => (c_res.ok /\ c_res.val.rd_length = rdl
                                     /\ c_res.pos = off + 10 + rdl)

C8_Witness ==
    /\ c_pc = "areencoded"
    /\ c_orig.bytes = TestAnswerBytes
    /\ c_res.val.r_data = <<7, 45, 32, 56>>
    /\ c_res.val.r_type = "Mb"
    /\ c_res.val.ttl = U32(1399)

(***************************************************************************)
(* main.rs: the receive loop                                               *)
(***************************************************************************)
BufLen == 512

MaxQuestions == 2

MaxRecv == 2

\* lines 49-69: the request header rewritten for the response
RewriteHeader_ClearsRd(h) ==
    [h EXCEPT !.third_byte.query_response_ind = TRUE,
              !.third_byte.authoritative_answer = FALSE,
              !.third_byte.truncation = FALSE,
              !.third_byte.recursion_desired = FALSE,
              !.fourth_byte.recursion_available = FALSE,
              !.fourth_byte.reserved = 0,
              !.fourth_byte.response_code =
                  IF h.third_byte.operation_code = "Query"
                  THEN "NoError" ELSE "NotImplemented",
              !.answer_record_count = h.question_count,
              !.authority_record_count = 0,
              !.additional_record_count = 0]

RewriteHeader_Mut(h) ==
    [h EXCEPT !.third_byte.query_response_ind = TRUE,
              !.third_byte.authoritative_answer = FALSE,
              !.third_byte.truncation = FALSE,
              !.fourth_byte.recursion_available = FALSE,
              !.fourth_byte.reserved = 0,
              !.fourth_byte.response_code =
                  IF h.third_byte.operation_code = "Query"
                  THEN "NoError" ELSE "NotImplemented",
              !.answer_record_count = h.question_count,
              !.additional_record_count = 0]

RewriteHeader(h) ==
    [h EXCEPT !.third_byte.query_response_ind = TRUE,
              !.third_byte.authoritative_answer = FALSE,
              !.third_byte.truncation = FALSE,
              !.fourth_byte.recursion_available = FALSE,
              !.fourth_byte.reserved = 0,
              !.fourth_byte.response_code =
                  IF h.third_byte.operation_code = "Query"
                  THEN "NoError" ELSE "NotImplemented",
              !.answer_record_count = h.question_count,
              !.authority_record_count = 0,
              !.additional_record_count = 0]

\* lines 80-86: the question forced to A / IN and the answer built from it
ForceQuestion(dns_question) ==
    [dns_question EXCEPT !.q_type = "A", !.q_class = "In"]

FillAnswer(dns_question) ==
    [DnsAnswerFromQuestion(dns_question) EXCEPT
        !.ttl = U32(60), !.rd_length = 4, !.r_data = <<45, 87, 98, 65>>]

\* where the reader stands when DnsQuestion::try_from, called with the reader
\* at pos, returns Ok or Err (a failed read_exact leaves a Cursor at its end)
QuestionReaderEnd(bytes, pos) ==
    LET n == ReadName(bytes, pos, <<>>)
        t == ReadExact(bytes, n.pos, 2)
        c == ReadExact(bytes, t.pos, 2)
    IN  IF ~n.ok THEN n.pos
        ELSE IF ~t.ok THEN t.pos
        ELSE IF ~QTypeTryFrom(U16FromBeBytes(t.data)).ok THEN t.pos
        ELSE c.pos

\* lines 76-89: the loop over 0..nb_questions, the reader standing at pos;
\* a question that fails to decode stops it (the expect panics).
\* (The singleton set binds the state of the next iteration to its value.)
RECURSIVE QuestionLoop(_, _, _, _, _)
QuestionLoop(bytes, pos, n, qs, as) ==
    IF n = 0 THEN [ok |-> TRUE, err |-> None, questions |-> qs, answers |-> as, pos |-> pos]
    ELSE LET r == DnsQuestionTryFrom(bytes, pos)
         IN  IF ~r.ok THEN [ok |-> FALSE, err |-> r.err, questions |-> <<>>,
                            answers |-> <<>>, pos |-> QuestionReaderEnd(bytes, pos)]
             ELSE CHOOSE res \in
                      { QuestionLoop(bytes, st.pos, st.n, st.qs, st.as) :
                        st \in { [pos |-> r.pos, n |-> n - 1,
                                  qs |-> Append(qs, ForceQuestion(r.val)),
                                  as |-> Append(as, FillAnswer(ForceQuestion(r.val)))] } } :
                      TRUE

\* lines 90-97: the question bytes, then the answer bytes
RECURSIVE QuestionsInto(_)
QuestionsInto(qs) ==
    IF qs = <<>> THEN <<>> ELSE DnsQuestionInto(Head(qs)) \o QuestionsInto(Tail(qs))

AnswersInto_Mut(as) ==
    IF as = <<>> THEN <<>> ELSE DnsAnswerInto(Head(as))

RECURSIVE AnswersInto(_)
AnswersInto(as) ==
    IF as = <<>> THEN <<>> ELSE DnsAnswerInto(Head(as)) \o AnswersInto(Tail(as))

\* lines 37-97: one iteration of the loop on the buffer as recv_from left it.
\* The reader covers the whole buffer, &buf[..], not the size received.
HandleBuffer(b) ==
    LET header_buf == ReadExact(b, 0, 12)
        parsed == DnsHeaderTryFrom(header_buf.data)
        header == RewriteHeader(parsed.val)
        nb_questions == header.question_count
        Failed(e, p) == [ok |-> FALSE, err |-> e, dns_header |-> None, questions |-> <<>>,
                         answers |-> <<>>, response |-> <<>>, pos |-> p]
        Sent(loop) ==
            IF ~loop.ok THEN Failed(loop.err, loop.pos)
            ELSE [ok |-> TRUE, err |-> None, dns_header |-> header,
                  questions |-> loop.questions, answers |-> loop.answers,
                  response |-> DnsHeaderInto(header) \o QuestionsInto(loop.questions)
                               \o AnswersInto(loop.answers),
                  pos |-> loop.pos]
    IN  IF ~header_buf.ok THEN Failed("UnexpectedEof", header_buf.pos)
        ELSE IF ~parsed.ok THEN Failed(parsed.err, header_buf.pos)
        ELSE CHOOSE res \in
                 { Sent(loop) :
                   loop \in {QuestionLoop(b, header_buf.pos, nb_questions, <<>>, <<>>)} } :
                 TRUE

\* recv_from(&mut buf): the datagram overwrites the front of the buffer, at
\* most BufLen bytes of it; the rest of the buffer keeps its old content
RecvFrom(b, bytes) ==
    IF Len(bytes) >= BufLen THEN SubSeq(bytes, 1, BufLen)
    ELSE bytes \o SubSeq(b, Len(bytes) + 1, BufLen)

(***************************************************************************)
(* Server: the datagrams clients send                                      *)
(***************************************************************************)
\* <<id, third byte, fourth byte, authority count, additional count>> of a request:
\* a plain query with RD, an inverse query with AA/TC/RA/Z set and trailing
\* counts, a reserved opcode (9), a query with the QR bit set
RequestHeads ==
    { <<4660, 1, 0, 0, 0>>, <<2829, 14, 162, 3, 1>>, <<65535, 72, 5, 0, 0>>,
      <<7, 129, 128, 0, 2>> }

ComName == <<Label(<<99, 111, 109>>)>>

RequestQuestions ==
    { [q_name |-> ComName, q_type |-> "A", q_class |-> "In"],
      [q_name |-> TestName, q_type |-> "Mx", q_class |-> "In"],
      [q_name |-> <<Label([i \in 1..63 |-> 97]), Label(<<195, 169>>)>>,
       q_type |-> "StarSign", q_class |-> "Hs"] }

QuestionLists == UNION { [1..n -> RequestQuestions] : n \in 0..MaxQuestions }

\* what a client encodes: the header with the question count, then the questions
RequestBytes(head, qs) ==
    U16ToBeBytes(head[1]) \o <<head[2], head[3]>> \o U16ToBeBytes(Len(qs))
    \o U16ToBeBytes(0) \o U16ToBeBytes(head[4]) \o U16ToBeBytes(head[5])
    \o QuestionsInto(qs)

\* bytes: the datagram; wellformed, questions: whether it is the encoding of
\* a request, and that request's questions
Datagram(head, qs) ==
    [bytes |-> RequestBytes(head, qs), wellformed |-> TRUE, questions |-> qs]

\* every question list under the plain query header, and every header with
\* the two questions com A IN, query.example.com MX IN
WellFormedDatagrams ==
    { Datagram(<<4660, 1, 0, 0, 0>>, qs) : qs \in QuestionLists }
    \cup
    { Datagram(head, << [q_name |-> ComName, q_type |-> "A", q_class |-> "In"],
                        [q_name |-> TestName, q_type |-> "Mx", q_class |-> "In"] >>) :
      head \in RequestHeads }

\* a header claiming 5 questions and nothing else; an unknown qtype; a
\* truncated question; a non UTF-8 label; a 3-byte datagram; a second question
\* that is a compression pointer to the first
MalformedDatagrams ==
    { [bytes |-> b, wellformed |-> FALSE, questions |-> <<>>] :
      b \in { <<0, 9, 1, 0, 0, 5, 0, 0, 0, 0, 0, 0>>,
              <<0, 10, 1, 0, 0, 1, 0, 0, 0, 0, 0, 0, 3, 99, 111, 109, 0, 0, 17, 0, 1>>,
              <<0, 11, 1, 0, 0, 1, 0, 0, 0, 0, 0, 0, 3, 99, 111>>,
              <<0, 12, 1, 0, 0, 1, 0, 0, 0, 0, 0, 0, 1, 255, 0, 0, 1, 0, 1>>,
              <<0, 13, 1>>,
              <<0, 14, 1, 0, 0, 2, 0, 0, 0, 0, 0, 0, 3, 99, 111, 109, 0, 0, 1, 0, 1,
                192, 12, 0, 1, 0, 1>> } }

Datagrams == WellFormedDatagrams \cup MalformedDatagrams

NoDatagram == [bytes |-> <<>>, wellformed |-> FALSE, questions |-> <<>>]

\* line 28: let mut buf = [0; 512]
FreshBuf == [i \in 1..BufLen |-> 0]

Init ==
    /\ pc = "running"
    /\ buf = FreshBuf
    /\ datagram = NoDatagram
    /\ dns_header = None
    /\ questions = <<>>
    /\ answers = <<>>
    /\ response = <<>>
    /\ nrecv = 0
    /\ failure = None
    /\ reader_pos = 0
    /\ HeaderIdle
    /\ CodecIdle

\* recv_from returns Ok((size, source)): one iteration of the loop, to the
\* send_to or to the panic of an expect
Recv(d) ==
    /\ pc = "running"
    /\ nrecv < MaxRecv
    /\ buf' = RecvFrom(buf, d.bytes)
    /\ \E r \in {HandleBuffer(buf')} :
           /\ datagram' = d
           /\ dns_header' = r.dns_header
           /\ questions' = r.questions
           /\ answers' = r.answers
           /\ response' = r.response
           /\ failure' = r.err
           /\ reader_pos' = r.pos
           /\ pc' = IF r.ok THEN "running" ELSE "panicked"
    /\ nrecv' = nrecv + 1
    /\ UNCHANGED <<hvars, cvars>>

\* recv_from returns Err(e): the loop breaks and main returns
RecvErr ==
    /\ pc = "running"
    /\ pc' = "exited"
    /\ UNCHANGED <<buf, datagram, dns_header, questions, answers, response, nrecv,
                   failure, reader_pos>>
    /\ UNCHANGED <<hvars, cvars>>

Next == (\E d \in Datagrams : Recv(d)) \/ RecvErr

Spec == Init /\ [][Next]_vars

(***************************************************************************)
(* Server claims                                                           *)
(***************************************************************************)
\* the last datagram received was answered: response holds what send_to sent
Replied == nrecv > 0 /\ pc # "panicked" /\ response # <<>>

\* the header a client decodes from the reply
ReplyHeader == DnsHeaderTryFrom(Slice(response, 0, 12)).val

\* C9: the reply header has QR set, AA, TC, RA and Z cleared, response code
\* NoError for opcode Query and NotImplemented for any other opcode, an
\* answer count equal to the request's question count, and authority and
\* additional counts of 0.
C9_ReplyHeaderForced ==
    (Replied /\ Len(datagram.bytes) >= 12) =>
        LET req == datagram.bytes
            rh == ReplyHeader
        IN  /\ rh = dns_header
            /\ rh.third_byte.query_response_ind = TRUE
            /\ rh.third_byte.authoritative_answer = FALSE
            /\ rh.third_byte.truncation = FALSE
            /\ rh.fourth_byte.recursion_available = FALSE
            /\ rh.fourth_byte.reserved = 0
            /\ rh.fourth_byte.response_code =
                   IF FieldOf(req[3], 3, 4) = 0 THEN "NoError" ELSE "NotImplemented"
            /\ rh.answer_record_count = WordAt(req, 4)
            /\ rh.authority_record_count = 0
            /\ rh.additional_record_count = 0

C9_Witness ==
    /\ Replied
    /\ datagram.bytes[3] = 14 /\ datagram.bytes[4] = 162
    /\ WordAt(datagram.bytes, 4) = 2
    /\ WordAt(datagram.bytes, 8) = 3
    /\ dns_header.fourth_byte.response_code = "NotImplemented"
    /\ dns_header.answer_record_count = 2

\* C10: the reply to a request with n questions has n answers, the i-th with
\* the name, type and class of the request's i-th question; a standard query
\* with the single question A / IN gets one matching answer and NoError.
C10_AnswersMirrorQuestions ==
    (Replied /\ datagram.wellformed) =>
        /\ Len(answers) = Len(datagram.questions)
        /\ \A i \in 1..Len(answers) :
              /\ answers[i].r_name = datagram.questions[i].q_name
              /\ answers[i].r_type = datagram.questions[i].q_type
              /\ answers[i].r_class = datagram.questions[i].q_class
        /\ (Len(datagram.questions) = 1 /\ datagram.questions[1].q_type = "A"
               /\ datagram.questions[1].q_class = "In"
               /\ FieldOf(datagram.bytes[3], 3, 4) = 0) =>
               ReplyHeader.fourth_byte.response_code = "NoError"

\* C11: the reply keeps the header fields the rewrite does not force: its id
\* is the request's id, and its opcode (3..15 read as 3), its recursion
\* desired bit and its question count are the request's.
C11_ReplyHeaderFrame ==
    (Replied /\ Len(datagram.bytes) >= 12) =>
        LET req == datagram.bytes
        IN  /\ WordAt(response, 0) = WordAt(req, 0)
            /\ FieldOf(response[3], 3, 4) =
                   (IF FieldOf(req[3], 3, 4) >= 3 THEN 3 ELSE FieldOf(req[3], 3, 4))
            /\ BitOf(response[3], 0) = BitOf(req[3], 0)
            /\ WordAt(response, 4) = WordAt(req, 4)
            /\ dns_header.packet_id = WordAt(req, 0)
            /\ dns_header.third_byte.recursion_desired = (BitOf(req[3], 0) = 1)
            /\ dns_header.question_count = WordAt(req, 4)

C11_Witness ==
    /\ Replied
    /\ WordAt(datagram.bytes, 0) = 4660 /\ datagram.bytes[3] = 1
    /\ WordAt(datagram.bytes, 4) = 2
    /\ WordAt(response, 0) = 4660 /\ BitOf(response[3], 0) = 1
    /\ WordAt(response, 4) = 2

\* where a reader of the reply stands after nq questions and then na records
\* read from pos, or -1 when one of them does not decode
RECURSIVE EntriesEnd(_, _, _, _)
EntriesEnd(bytes, pos, nq, na) ==
    IF nq = 0 /\ na = 0 THEN pos
    ELSE CHOOSE e \in
             { IF ~r.ok THEN -1
               ELSE EntriesEnd(bytes, r.pos, IF nq > 0 THEN nq - 1 ELSE 0,
                               IF nq > 0 THEN na ELSE na - 1) :
               r \in { IF nq > 0 THEN DnsQuestionTryFrom(bytes, pos)
                       ELSE DnsAnswerTryFrom(bytes, pos) } } : TRUE

\* C12: every reply sent has the QR bit set, and holds exactly as many
\* questions as its header's question count and exactly as many records as
\* its header's answer count: reading that many entries ends at the end of
\* the reply.
C12_ReplyCountsMatchEntries ==
    Replied =>
        /\ Len(response) >= 12
        /\ BitOf(response[3], 7) = 1
        /\ Len(questions) = WordAt(response, 4)
        /\ Len(answers) = WordAt(response, 6)
        /\ EntriesEnd(response, 12, WordAt(response, 4), WordAt(response, 6)) = Len(response)

C12_Witness ==
    /\ Replied
    /\ nrecv = 2
    /\ WordAt(response, 4) = 2 /\ WordAt(response, 6) = 2
    /\ Len(questions) = 2 /\ Len(answers) = 2
    /\ Len(response) > 12

\* C13: a 12-byte datagram whose header claims 5 questions fails to decode
\* with an end-of-input error; nothing panics, and the reader reads no byte
\* beyond the length of the datagram.
C13_ShortDatagramIsEof ==
    (nrecv > 0 /\ Len(datagram.bytes) = 12 /\ WordAt(datagram.bytes, 4) = 5) =>
        /\ failure = "UnexpectedEof"
        /\ pc # "panicked"
        /\ reader_pos <= Len(datagram.bytes)

\* C14: a datagram that fails to decode is dropped and nothing is sent for
\* it, and the server keeps running, so that later requests are answered.
C14_FailedDecodeDropped ==
    (nrecv > 0 /\ failure # None) =>
        /\ response = <<>>
        /\ pc = "running"

\* C15: a datagram whose header has the QR bit set is rejected with
\* WrongDirection and gets no reply.
C15_ResponseDatagramRejected ==
    (nrecv > 0 /\ Len(datagram.bytes) >= 12 /\ BitOf(datagram.bytes[3], 7) = 1) =>
        /\ response = <<>>
        /\ failure = "WrongDirection"

\* C18: the outcome for a datagram depends on its bytes only: whatever was
\* received before it, the reply sent (or the absence of a reply) is the one
\* the same datagram gets when it is the first the server receives.
C18_OutcomeIndependentOfHistory ==
    nrecv > 0 =>
        LET first == HandleBuffer(RecvFrom(FreshBuf, datagram.bytes))
        IN  /\ response = first.response
            /\ failure = first.err
            /\ (pc = "panicked") = ~first.ok

\* the number of iterations of the name loop, the reader starting at pos
RECURSIVE ReadNameSteps(_, _)
ReadNameSteps(bytes, pos) ==
    IF pos >= Len(bytes) \/ bytes[pos + 1] = 0 THEN 1
    ELSE IF pos + 1 + bytes[pos + 1] > Len(bytes) THEN 1
    ELSE IF ~IsUtf8(SubSeq(bytes, pos + 2, pos + 1 + bytes[pos + 1])) THEN 1
    ELSE 1 + ReadNameSteps(bytes, pos + 1 + bytes[pos + 1])

\* the name at the input's position is a compression pointer to itself, or to
\* a pointer that points back to it
PointerLoop(in) ==
    /\ AtPointer(in)
    /\ \/ PointerTarget(in) = in.pos
       \/ /\ PointerTarget(in) + 2 <= Len(in.bytes)
          /\ in.bytes[PointerTarget(in) + 1] \div 64 = 3
          /\ (in.bytes[PointerTarget(in) + 1] % 64) * 256
                 + in.bytes[PointerTarget(in) + 2] = in.pos

\* C19: decoding a name ends on every input, with a name or with an error,
\* after at most one iteration per byte left in the buffer; a compression
\* pointer to itself or in a cycle is reported as PointerLoopOrOutOfRange.
C19_NameDecodingTerminates ==
    (c_orig.kind \in {"qbytes", "abytes"}
         /\ c_pc \in {"qdecoded", "qfailed", "adecoded", "afailed"}) =>
        /\ c_res.ok \/ c_res.err # None
        /\ ReadNameSteps(c_orig.bytes, c_orig.pos) <= Len(c_orig.bytes) - c_orig.pos + 1
        /\ PointerLoop(c_orig) => (~c_res.ok /\ c_res.err = "PointerLoopOrOutOfRange")

====
